---- MODULE Spec2Model ----
(***************************************************************************)
(* Befunge-93 interpreter (src/b93.cc): the loader readfile, the cursor    *)
(* arithmetic of interpret::move and the fetch/execute loop of interpret.   *)
(*                                                                         *)
(* Positions and directions are the C++ arrays pos and dir; TLA+ tuples    *)
(* are 1-based, so pos[1] is the C++ pos[0] (x, the column) and pos[2] is   *)
(* the C++ pos[1] (y, the row).  dirs[k+1] is the C++ dirs[k].              *)
(***************************************************************************)
EXTENDS Integers, Sequences, FiniteSets, TLC

(***************************************************************************)
(* Program constants.                                                      *)
(***************************************************************************)
max_row_size == 25
max_col_size == 80
\* width in bits of std::size_t and std::ptrdiff_t (LP64 build)
SizeBits == 64

\* grid_t's default member initialisers
rows == max_row_size
cols == max_col_size + 1
GridSize == max_row_size * (max_col_size + 1)
\* size of the read buffer in readfile
ReadBufSize == max_row_size * max_col_size

\* std::int32_t limits
INT32_MAX == 2147483647
INT32_MIN == (-2147483647) - 1

\* character codes of the case labels of the dispatch switch
ChNewline == 10
ChNot == 33
ChQuote == 34
ChHash == 35
ChDollar == 36
ChPercent == 37
ChAmp == 38
ChTick == 39
ChStar == 42
ChPlus == 43
ChComma == 44
ChMinus == 45
ChDot == 46
ChSlash == 47
ChZero == 48
ChNine == 57
ChColon == 58
ChLt == 60
ChGt == 62
ChQuestion == 63
ChAt == 64
ChBackslash == 92
ChCaret == 94
ChUnderscore == 95
ChBacktick == 96
ChLowerA == 97
ChLowerF == 102
ChLowerG == 103
ChLowerP == 112
ChLowerV == 118
ChBar == 124
ChTilde == 126

(***************************************************************************)
(* Bounds of the model.                                                    *)
(***************************************************************************)
\* the vector's growth is cut off at this many elements
MaxStack == 4
\* the output stream is cut off at this many bytes
MaxOut == 6
\* the longest run of digits in the digit programs
MaxDigits == 3
\* the longest string in the string-output programs
MaxString == 2

(***************************************************************************)
(* Inputs of the model.                                                    *)
(***************************************************************************)
\* values scanf("%i") may store for '&' (or leave behind when it fails)
InputInts == {-1, 0, 1, 25, 80, 81, 300}
\* bytes scanf("%c") may store for '~' (or leave behind when it fails)
InputBytes == {10, 65, 200}

\* program files, as byte sequences
ProgEast == <<ChGt>>
ProgWest == <<ChLt>>
ProgNorth == <<ChCaret>>
ProgSouth == <<ChLowerV>>
ProgRandom == <<ChQuestion>>
\* a.@
ProgHex == <<ChLowerA, ChDot, ChAt>>
\* f.@
ProgHexF == <<ChLowerF, ChDot, ChAt>>
\* '@.@
ProgTick == <<ChTick, ChAt, ChDot, ChAt>>
\* #@1.@
ProgHash == <<ChHash, ChAt, ChZero + 1, ChDot, ChAt>>
\* "A@",,@
ProgString == <<ChQuote, 65, ChAt, ChQuote, ChComma, ChComma, ChAt>>
\* "e-acute as UTF-8",.@
ProgUtf8 == <<ChQuote, 195, 169, ChQuote, ChDot, ChAt>>
\* _&_@
ProgUnderscore == <<ChUnderscore, ChAmp, ChUnderscore, ChAt>>
\* |      three lines: "|", ">&|", "  @"
ProgBar == <<ChBar, ChNewline, ChGt, ChAmp, ChBar, ChNewline, 32, 32, ChAt, ChNewline>>
\* !$&!&!..@
ProgNot == <<ChNot, ChDollar, ChAmp, ChNot, ChAmp, ChNot, ChDot, ChDot, ChAt>>
\* $.,:\@
ProgUnderflow == <<ChDollar, ChDot, ChComma, ChColon, ChBackslash, ChAt>>
\* \&\&\.@
ProgSwap == <<ChBackslash, ChAmp, ChBackslash, ChAmp, ChBackslash, ChDot, ChAt>>
\* &&+.@ and the like
ProgBinary(op) == <<ChAmp, ChAmp, op, ChDot, ChAt>>
\* 7&&op.@    the operator finds a third value below its operands
ProgBinaryDeep(op) == <<ChZero + 7, ChAmp, ChAmp, op, ChDot, ChAt>>
\* &op.@      the operator finds one value only
ProgBinaryOne(op) == <<ChAmp, op, ChDot, ChAt>>
\* the operators whose operands do not commute
OrderedOps == {ChMinus, ChSlash, ChPercent, ChBacktick}
\* &&&p@
ProgPut == <<ChAmp, ChAmp, ChAmp, ChLowerP, ChAt>>
\* &&g.@
ProgGet == <<ChAmp, ChAmp, ChLowerG, ChDot, ChAt>>
\* &12p12g.@
ProgPutGet == <<ChAmp, ChZero + 1, ChZero + 2, ChLowerP,
                ChZero + 1, ChZero + 2, ChLowerG, ChDot, ChAt>>
\* &98*7+83*p98*7+83*g.@    (the cell at column 79, row 24)
ProgPutGetCorner == <<ChAmp, ChZero + 9, ChZero + 8, ChStar, ChZero + 7, ChPlus,
                      ChZero + 8, ChZero + 3, ChStar, ChLowerP,
                      ChZero + 9, ChZero + 8, ChStar, ChZero + 7, ChPlus,
                      ChZero + 8, ChZero + 3, ChStar, ChLowerG, ChDot, ChAt>>
\* <#     the skip crosses the west edge
ProgWestSkip == <<ChLt, ChHash>>
\* <"     the string crosses the west edge
ProgWestString == <<ChLt, ChQuote>>
\* #"<, 48 spaces, "    the string opened at column 1 crosses the west
\*        edge; the cell the cursor comes to next, column 51, holds a quote
ProgWestStringEdge ==
    [k \in 1..52 |-> CASE k = 1 -> ChHash
                       [] k = 2 -> ChQuote
                       [] k = 3 -> ChLt
                       [] k = 52 -> ChQuote
                       [] OTHER -> 32]
\* # <    '#' is met at column 0 with the cursor travelling west
ProgSkipFromEdge == <<ChHash, 32, ChLt>>
\* max_row_size empty lines, then "A": a file of max_row_size + 1 lines
ProgManyLines ==
    [k \in 1..(max_row_size + 1) |-> IF k <= max_row_size THEN ChNewline ELSE 65]
\* "v", 15 empty lines, "#", the quote, "^": the quote of row 17 is met
\*        with the cursor travelling north
ProgNorthString ==
    [k \in 1..22 |-> CASE k = 1 -> ChLowerV
                       [] k = 18 -> ChHash
                       [] k = 20 -> ChQuote
                       [] k = 22 -> ChCaret
                       [] OTHER -> ChNewline]
\* 88*90p90g.     'p' stores '@' in the cell of the '.'
ProgPutFetch == <<ChZero + 8, ChZero + 8, ChStar, ChNine, ChZero, ChLowerP,
                  ChNine, ChZero, ChLowerG, ChDot>>
\* &90p90g.       'p' stores the value read in a cell the cursor comes to
ProgPutFetchInput == <<ChAmp, ChNine, ChZero, ChLowerP,
                       ChNine, ChZero, ChLowerG, ChDot>>
\* <'     the fetched cell lies across the west edge
ProgWestTick == <<ChLt, ChTick>>
\* two lines: "^", "#"    the skip crosses the north edge
ProgNorthSkip == <<ChCaret, ChNewline, ChHash>>
\* <_     '_' meets the empty stack while the cursor travels west
ProgWestUnderscore == <<ChLt, ChUnderscore>>
\* ~,@
ProgTilde == <<ChTilde, ChComma, ChAt>>

\* n digits followed by '@', for n = 0..MaxDigits
DigitChars == {ChZero, ChZero + 7, ChNine}
DigitPrograms ==
    { ds \o <<ChAt>> : ds \in UNION { [1..n -> DigitChars] : n \in 0..MaxDigits } }

\* "c1..cn" followed by n+1 commas and '@', for n = 1..MaxString
StringChars == {65, 66, 195}
Commas(n) == [k \in 1..n |-> ChComma]
StringOutPrograms ==
    { <<ChQuote>> \o cs \o <<ChQuote>> \o Commas(Len(cs) + 1) \o <<ChAt>> :
        cs \in UNION { [1..n -> StringChars] : n \in 1..MaxString } }

Programs ==
    { ProgEast, ProgWest, ProgNorth, ProgSouth, ProgRandom, ProgHex, ProgHexF,
      ProgTick, ProgHash, ProgString, ProgUtf8, ProgUnderscore, ProgBar,
      ProgNot, ProgUnderflow, ProgSwap, ProgPut, ProgGet, ProgPutGet,
      ProgPutGetCorner, ProgTilde,
      ProgManyLines, ProgNorthString, ProgPutFetch, ProgPutFetchInput,
      ProgWestSkip, ProgSkipFromEdge, ProgWestString, ProgWestStringEdge,
      ProgWestTick,
      ProgNorthSkip,
      ProgWestUnderscore }
    \cup { ProgBinary(op) : op \in {ChPlus, ChMinus, ChStar, ChSlash, ChPercent, ChBacktick} }
    \cup { ProgBinaryDeep(op) : op \in OrderedOps }
    \cup { ProgBinaryOne(op) : op \in OrderedOps }
    \cup DigitPrograms
    \cup StringOutPrograms

(***************************************************************************)
(* State.                                                                  *)
(***************************************************************************)
VARIABLES
    file,         \* the bytes of the program file
    extensions,   \* interpret's parameter
    char_signed,  \* whether the build's plain char is signed
    phase,        \* "load", "run", "string", "halted" or "undefined"
    i, j, linecols,  \* readfile's loop variables i, j, cols
    data,         \* grid_t::data
    stack,        \* interpret's stack, bottom first
    pos, dir,     \* the cursor and its direction
    out,          \* the bytes written to stdout
    lastIns,      \* history: the cell of the last instruction fetch, -1 before it
    lastPut,      \* history: <<x, y, value>> popped by the last 'p', <<>> before it
    strOpen       \* history: <<pos, stack.size()>> at the last '"', <<>> before it

vars == <<file, extensions, char_signed, phase, i, j, linecols, data, stack,
          pos, dir, out, lastIns, lastPut, strOpen>>

(***************************************************************************)
(* Integer conversions.                                                    *)
(***************************************************************************)
RECURSIVE Pow2Mod(_, _)
\* 2^k modulo n
Pow2Mod(k, n) ==
    IF k = 0 THEN 1 % n
    ELSE IF k % 2 = 1 THEN (2 * Pow2Mod(k - 1, n)) % n
    ELSE LET h == Pow2Mod(k \div 2, n) IN (h * h) % n

\* (std::size_t)v % n: a negative ptrdiff_t converts to v + 2^SizeBits
USizeMod(v, n) == IF v >= 0 THEN v % n ELSE (Pow2Mod(SizeBits, n) + (v % n)) % n

\* a byte 0..255 held in a plain char
ByteToChar(b, sgn) == IF sgn /\ b >= 128 THEN b - 256 ELSE b

\* static_cast<char> of an int32, and the implicit conversion in data[..] = value
IntToChar(v, sgn) == ByteToChar(v % 256, sgn)

\* the byte "%c" writes for an int argument
IntToByte(v) == v % 256

RECURSIVE DecDigits(_)
\* decimal digits of n >= 0
DecDigits(n) == IF n < 10 THEN <<ChZero + n>> ELSE DecDigits(n \div 10) \o <<ChZero + (n % 10)>>

\* printf("%" PRId32 " ", v); for v < 0 the magnitude is -(v+1) + 1
FormatInt(v) ==
    IF v >= 0 THEN DecDigits(v) \o <<32>>
    ELSE LET m == -(v + 1)
             lastDigit == ((m % 10) + 1) % 10
             rest == (m \div 10) + (IF m % 10 = 9 THEN 1 ELSE 0)
         IN <<ChMinus>> \o (IF rest = 0 THEN <<>> ELSE DecDigits(rest))
                        \o <<ChZero + lastDigit, 32>>

(***************************************************************************)
(* The stack lambdas and the cursor.                                       *)
(***************************************************************************)
push(s, v) == Append(s, v)
\* pop() taking the oldest element
pop_front(s) == IF s = <<>> THEN 0 ELSE s[1]

\* the value pop() returns
pop(s) == IF s = <<>> THEN 0 ELSE s[Len(s)]
\* the stack pop() leaves
popped(s) == IF s = <<>> THEN <<>> ELSE SubSeq(s, 1, Len(s) - 1)

\* the directions: south, north, west, east
dirs == << <<0, 1>>, <<0, -1>>, <<-1, 0>>, <<1, 0>> >>

\* move() without the reduction modulo cols and rows
move_unwrapped(p, d) == << p[1] + d[1], p[2] + d[2] >>

\* interpret::move: the operands of % are converted to std::size_t
move(p, d) ==
    << (USizeMod(p[1] + d[1], cols) + cols) % cols,
       (USizeMod(p[2] + d[2], rows) + rows) % rows >>

\* data[pos[1] * cols + pos[0]]
CellIndex(p) == p[2] * cols + p[1]
Cell(g, p) == g[CellIndex(p)]

\* the bounds check against the buffer's row length instead of the width
InBounds_cols(x, y) == x >= 0 /\ x <= max_col_size /\ y >= 0 /\ y < max_row_size

\* the bounds check of 'g' and 'p'
InBounds(x, y) == x >= 0 /\ x < max_col_size /\ y >= 0 /\ y < max_row_size

(***************************************************************************)
(* Initial state: interpret has been called, readfile has opened the file  *)
(* and value-initialised result.                                           *)
(***************************************************************************)
bytes_read == IF Len(file) < ReadBufSize THEN Len(file) ELSE ReadBufSize

Init ==
    /\ file \in Programs
    /\ extensions \in BOOLEAN
    /\ char_signed \in BOOLEAN
    /\ phase = "load"
    /\ i = 0
    /\ j = 0
    /\ linecols = 0
    /\ data = [k \in 0..(GridSize - 1) |-> 0]
    /\ stack = <<>>
    /\ pos = <<0, 0>>
    /\ dir = <<1, 0>>
    /\ out = <<>>
    /\ lastIns = -1
    /\ lastPut = <<>>
    /\ strOpen = <<>>

machine == <<stack, pos, dir, out, lastIns, lastPut>>
config == <<file, extensions, char_signed>>
loader == <<i, j, linecols>>

(***************************************************************************)
(* readfile's copy loop, one byte per step.  file[i + 1] is data[i].       *)
(***************************************************************************)
\* a UTF-8 continuation byte: --j; continue; then ++i, ++j
LoadContinuation ==
    /\ phase = "load"
    /\ i < bytes_read
    /\ (file[i + 1] \div 64) = 2
    /\ i' = i + 1
    /\ UNCHANGED <<j, linecols, data, phase, machine, config, strOpen>>

\* a newline: j += result.cols - cols - 1; cols = 0; continue; then ++i, ++j
LoadNewline ==
    /\ phase = "load"
    /\ i < bytes_read
    /\ (file[i + 1] \div 64) # 2
    /\ file[i + 1] = ChNewline
    /\ i' = i + 1
    /\ j' = j + cols - linecols - 1 + 1
    /\ linecols' = 0
    /\ UNCHANGED <<data, phase, machine, config, strOpen>>

\* any other byte: ++cols; result.data[j] = data[i]; then ++i, ++j.
\* A store outside result.data is undefined behaviour.
LoadCell ==
    /\ phase = "load"
    /\ i < bytes_read
    /\ (file[i + 1] \div 64) # 2
    /\ file[i + 1] # ChNewline
    /\ i' = i + 1
    /\ linecols' = linecols + 1
    /\ IF j < GridSize
       THEN /\ data' = [data EXCEPT ![j] = ByteToChar(file[i + 1], char_signed)]
            /\ j' = j + 1
            /\ phase' = phase
       ELSE /\ phase' = "undefined"
            /\ UNCHANGED <<data, j>>
    /\ UNCHANGED <<machine, config, strOpen>>

\* return result; the loop variables go out of scope
LoadDone ==
    /\ phase = "load"
    /\ i = bytes_read
    /\ phase' = "run"
    /\ i' = 0
    /\ j' = 0
    /\ linecols' = 0
    /\ UNCHANGED <<data, machine, config, strOpen>>


(***************************************************************************)
(* std::int32_t arithmetic.  Signed overflow and division by zero are      *)
(* undefined behaviour; the *Defined predicates say when the C++           *)
(* expression has a value.                                                 *)
(***************************************************************************)
AddDefined(a, b) == IF b >= 0 THEN a <= INT32_MAX - b ELSE a >= INT32_MIN - b
\* b - a
SubDefined(b, a) == IF a >= 0 THEN b >= INT32_MIN + a ELSE b <= INT32_MAX + a
\* ceiling of INT32_MIN / d, for d > 0
MinOver(d) == (-(INT32_MAX \div d)) - (IF INT32_MAX % d = d - 1 THEN 1 ELSE 0)
MulDefined(a, b) ==
    IF a = 0 \/ b = 0 THEN TRUE
    ELSE IF a > 0 /\ b > 0 THEN a <= INT32_MAX \div b
    ELSE IF a > 0 /\ b < 0 THEN b >= MinOver(a)
    ELSE IF a < 0 /\ b > 0 THEN a >= MinOver(b)
    ELSE a # INT32_MIN /\ b # INT32_MIN /\ (-a) <= INT32_MAX \div (-b)
\* b / a and b % a
DivDefined(b, a) == a # 0 /\ ~(b = INT32_MIN /\ a = -1)
\* b / d truncated toward zero, for d > 0
TruncDivPos(b, d) == IF b >= 0 \/ b % d = 0 THEN b \div d ELSE (b \div d) + 1
TruncDiv(b, a) ==
    IF a > 0 THEN TruncDivPos(b, a)
    ELSE IF a = INT32_MIN THEN (IF b = INT32_MIN THEN 1 ELSE 0)
    ELSE -TruncDivPos(b, -a)
TruncRem(b, a) ==
    IF a = INT32_MIN THEN (IF b = INT32_MIN THEN 0 ELSE b)
    ELSE LET d == IF a > 0 THEN a ELSE -a IN b - TruncDivPos(b, d) * d

(***************************************************************************)
(* Effects of single instructions on the stack, the direction and the grid *)
(***************************************************************************)
\* case '!' without the test for the empty stack
LogicalNot_backOnly(s) == [s EXCEPT ![Len(s)] = IF s[Len(s)] = 0 THEN 1 ELSE 0]

\* case '!'
LogicalNot(s) ==
    IF s = <<>> THEN push(s, 1)
    ELSE [s EXCEPT ![Len(s)] = IF s[Len(s)] = 0 THEN 1 ELSE 0]

\* case '_' with the two directions exchanged
HorizontalIf_swapped(v) == IF v # 0 THEN dirs[4] ELSE dirs[3]

\* case '_': dir = pop() != 0 ? dirs[2] : dirs[3]
HorizontalIf(v) == IF v # 0 THEN dirs[3] ELSE dirs[4]
\* case '|' with the two directions exchanged
VerticalIf_swapped(v) == IF v # 0 THEN dirs[1] ELSE dirs[2]

\* case '|': dir = pop() != 0 ? dirs[1] : dirs[0]
VerticalIf(v) == IF v # 0 THEN dirs[2] ELSE dirs[1]

\* case ':'
Duplicate(s) == push(s, IF s = <<>> THEN 0 ELSE s[Len(s)])

\* case '\\': switch (stack.size())
\* case '\\' leaving the zero beneath a single value
Swap_zeroBeneath(s) ==
    IF Len(s) = 0 THEN s
    ELSE IF Len(s) = 1 THEN <<0, s[1]>>
    ELSE [s EXCEPT ![Len(s)] = s[Len(s) - 1], ![Len(s) - 1] = s[Len(s)]]

\* case '\\'
Swap(s) ==
    IF Len(s) = 0 THEN s
    ELSE IF Len(s) = 1 THEN push(s, 0)
    ELSE [s EXCEPT ![Len(s)] = s[Len(s) - 1], ![Len(s) - 1] = s[Len(s)]]

\* the value 'g' pushes
\* 'g' taking the rows to be max_col_size cells apart
GetValue_width(g, x, y) == IF InBounds(x, y) THEN g[y * max_col_size + x] ELSE 0

\* the value 'g' pushes
GetValue(g, x, y) == IF InBounds(x, y) THEN g[y * cols + x] ELSE 0
\* 'p' storing into the transposed cell
PutGrid_transposed(g, x, y, v, sgn) ==
    IF InBounds(x, y) THEN [g EXCEPT ![x * cols + y] = IntToChar(v, sgn)] ELSE g

\* the grid 'p' leaves
PutGrid(g, x, y, v, sgn) ==
    IF InBounds(x, y) THEN [g EXCEPT ![y * cols + x] = IntToChar(v, sgn)] ELSE g

\* the case labels of the switch
Instructions ==
    { ChPlus, ChMinus, ChSlash, ChStar, ChPercent, ChNot, ChBacktick, ChCaret,
      ChLowerV, ChGt, ChLt, ChUnderscore, ChBar, ChQuote, ChColon, ChBackslash,
      ChDollar, ChDot, ChComma, ChHash, ChLowerG, ChLowerP, ChAmp, ChTilde, ChAt,
      ChQuestion, ChTick }
    \cup (ChZero..ChNine) \cup (ChLowerA..ChLowerF)

(***************************************************************************)
(* The dispatch loop.  Every instruction action is one iteration: the      *)
(* fetch, the case body and the move() at the end of the loop body.        *)
(***************************************************************************)
Fetch(c) == phase = "run" /\ Cell(data, pos) = c

\* the case body left the stack s, direction d, grid g, output o; then move()
Continue(s, d, g, o) ==
    /\ Len(s) <= MaxStack
    /\ Len(o) <= MaxOut
    /\ stack' = s
    /\ dir' = d
    /\ data' = g
    /\ out' = o
    /\ pos' = move(pos, d)
    /\ lastIns' = Cell(data, pos)
    /\ UNCHANGED <<phase, loader, config, strOpen>>

\* the case body has undefined behaviour
Undefined ==
    /\ phase' = "undefined"
    /\ lastIns' = Cell(data, pos)
    /\ UNCHANGED <<stack, dir, data, out, pos, lastPut, loader, config, strOpen>>

OpAdd ==
    /\ Fetch(ChPlus)
    /\ LET a == pop(stack)
           b == pop(popped(stack))
           s == popped(popped(stack))
       IN IF AddDefined(a, b)
          THEN Continue(push(s, a + b), dir, data, out) /\ UNCHANGED lastPut
          ELSE Undefined

\* case '-' with its operands exchanged
OpSub_reversed ==
    /\ Fetch(ChMinus)
    /\ LET a == pop(stack)
           b == pop(popped(stack))
           s == popped(popped(stack))
       IN IF SubDefined(a, b)
          THEN Continue(push(s, a - b), dir, data, out) /\ UNCHANGED lastPut
          ELSE Undefined

OpSub ==
    /\ Fetch(ChMinus)
    /\ LET a == pop(stack)
           b == pop(popped(stack))
           s == popped(popped(stack))
       IN IF SubDefined(b, a)
          THEN Continue(push(s, b - a), dir, data, out) /\ UNCHANGED lastPut
          ELSE Undefined

OpDiv ==
    /\ Fetch(ChSlash)
    /\ LET a == pop(stack)
           b == pop(popped(stack))
           s == popped(popped(stack))
       IN IF DivDefined(b, a)
          THEN Continue(push(s, TruncDiv(b, a)), dir, data, out) /\ UNCHANGED lastPut
          ELSE Undefined

OpMul ==
    /\ Fetch(ChStar)
    /\ LET a == pop(stack)
           b == pop(popped(stack))
           s == popped(popped(stack))
       IN IF MulDefined(a, b)
          THEN Continue(push(s, a * b), dir, data, out) /\ UNCHANGED lastPut
          ELSE Undefined

OpMod ==
    /\ Fetch(ChPercent)
    /\ LET a == pop(stack)
           b == pop(popped(stack))
           s == popped(popped(stack))
       IN IF DivDefined(b, a)
          THEN Continue(push(s, TruncRem(b, a)), dir, data, out) /\ UNCHANGED lastPut
          ELSE Undefined

OpNot ==
    /\ Fetch(ChNot)
    /\ Continue(LogicalNot(stack), dir, data, out)
    /\ UNCHANGED lastPut

OpGreater ==
    /\ Fetch(ChBacktick)
    /\ LET a == pop(stack)
           b == pop(popped(stack))
           s == popped(popped(stack))
       IN Continue(push(s, IF b > a THEN 1 ELSE 0), dir, data, out)
    /\ UNCHANGED lastPut

OpNorth ==
    /\ Fetch(ChCaret)
    /\ Continue(stack, dirs[2], data, out)
    /\ UNCHANGED lastPut

OpSouth ==
    /\ Fetch(ChLowerV)
    /\ Continue(stack, dirs[1], data, out)
    /\ UNCHANGED lastPut

OpEast ==
    /\ Fetch(ChGt)
    /\ Continue(stack, dirs[4], data, out)
    /\ UNCHANGED lastPut

OpWest ==
    /\ Fetch(ChLt)
    /\ Continue(stack, dirs[3], data, out)
    /\ UNCHANGED lastPut

OpHorizontalIf ==
    /\ Fetch(ChUnderscore)
    /\ Continue(popped(stack), HorizontalIf(pop(stack)), data, out)
    /\ UNCHANGED lastPut

OpVerticalIf ==
    /\ Fetch(ChBar)
    /\ Continue(popped(stack), VerticalIf(pop(stack)), data, out)
    /\ UNCHANGED lastPut


\* case '"': move(), then the inner loop runs in phase "string"
OpQuote ==
    /\ Fetch(ChQuote)
    /\ pos' = move(pos, dir)
    /\ phase' = "string"
    /\ lastIns' = Cell(data, pos)
    /\ strOpen' = <<pos, stack>>
    /\ UNCHANGED <<stack, dir, data, out, lastPut, loader, config>>

\* the inner loop of case '"' treating '@' as the end of the run
StringPush_haltsAtAt ==
    /\ phase = "string"
    /\ Cell(data, pos) # ChQuote
    /\ IF Cell(data, pos) = ChAt
       THEN /\ phase' = "halted"
            /\ UNCHANGED <<stack, pos>>
       ELSE /\ Len(stack) < MaxStack
            /\ stack' = push(stack, Cell(data, pos))
            /\ pos' = move(pos, dir)
            /\ UNCHANGED phase
    /\ UNCHANGED <<dir, data, out, lastIns, lastPut, loader, config, strOpen>>

\* one iteration of the inner loop of case '"': push(ch); move()
StringPush ==
    /\ phase = "string"
    /\ Cell(data, pos) # ChQuote
    /\ Len(stack) < MaxStack
    /\ stack' = push(stack, Cell(data, pos))
    /\ pos' = move(pos, dir)
    /\ UNCHANGED <<phase, dir, data, out, lastIns, lastPut, loader, config, strOpen>>

\* the inner loop's break, and the move() at the end of the loop body
StringEnd ==
    /\ phase = "string"
    /\ Cell(data, pos) = ChQuote
    /\ phase' = "run"
    /\ pos' = move(pos, dir)
    /\ UNCHANGED <<stack, dir, data, out, lastIns, lastPut, loader, config, strOpen>>

OpDuplicate ==
    /\ Fetch(ChColon)
    /\ Continue(Duplicate(stack), dir, data, out)
    /\ UNCHANGED lastPut

\* case '\\' without the case for the stack of one value
OpSwap_noCaseOne ==
    /\ Fetch(ChBackslash)
    /\ Continue(IF Len(stack) = 1 THEN stack ELSE Swap(stack), dir, data, out)
    /\ UNCHANGED lastPut

OpSwap ==
    /\ Fetch(ChBackslash)
    /\ Continue(Swap(stack), dir, data, out)
    /\ UNCHANGED lastPut

OpDiscard ==
    /\ Fetch(ChDollar)
    /\ Continue(popped(stack), dir, data, out)
    /\ UNCHANGED lastPut

OpPrintInt ==
    /\ Fetch(ChDot)
    /\ Continue(popped(stack), dir, data, out \o FormatInt(pop(stack)))
    /\ UNCHANGED lastPut

OpPrintChar ==
    /\ Fetch(ChComma)
    /\ Continue(popped(stack), dir, data, Append(out, IntToByte(pop(stack))))
    /\ UNCHANGED lastPut

\* case '#': move(), then the move() at the end of the loop body
OpSkip ==
    /\ Fetch(ChHash)
    /\ pos' = move(move(pos, dir), dir)
    /\ lastIns' = Cell(data, pos)
    /\ UNCHANGED <<phase, stack, dir, data, out, lastPut, loader, config, strOpen>>

OpGet ==
    /\ Fetch(ChLowerG)
    /\ LET y == pop(stack)
           x == pop(popped(stack))
           s == popped(popped(stack))
       IN Continue(push(s, GetValue(data, x, y)), dir, data, out)
    /\ UNCHANGED lastPut

OpPut ==
    /\ Fetch(ChLowerP)
    /\ LET y == pop(stack)
           x == pop(popped(stack))
           value == pop(popped(popped(stack)))
           s == popped(popped(popped(stack)))
       IN /\ Continue(s, dir, PutGrid(data, x, y, value, char_signed), out)
          /\ lastPut' = <<x, y, value>>

\* case '&': scanf stores an integer, or fails and leaves value indeterminate
OpReadInt ==
    /\ Fetch(ChAmp)
    /\ \E value \in InputInts : Continue(push(stack, value), dir, data, out)
    /\ UNCHANGED lastPut

\* case '~': scanf stores a byte, or fails and leaves value indeterminate
OpReadChar ==
    /\ Fetch(ChTilde)
    /\ \E b \in InputBytes :
          Continue(push(stack, ByteToChar(b, char_signed)), dir, data, out)
    /\ UNCHANGED lastPut

\* case '@': return
OpHalt ==
    /\ Fetch(ChAt)
    /\ phase' = "halted"
    /\ lastIns' = Cell(data, pos)
    /\ UNCHANGED <<stack, pos, dir, data, out, lastPut, loader, config, strOpen>>

\* case '0'..'9' pushing the character code
DigitValue_code(ins) == ins

\* ins - '0'
DigitValue(ins) == ins - ChZero

OpDigit ==
    /\ phase = "run"
    /\ Cell(data, pos) \in ChZero..ChNine
    /\ Continue(push(stack, DigitValue(Cell(data, pos))), dir, data, out)
    /\ UNCHANGED lastPut

\* case 'a'..'f' without the test of the extensions flag
HexPush_ungated(s, ins, ext) == push(s, ins - ChLowerA + 10)

\* the stack case 'a'..'f' leaves
HexPush(s, ins, ext) == IF ext THEN push(s, ins - ChLowerA + 10) ELSE s

OpHex ==
    /\ phase = "run"
    /\ Cell(data, pos) \in ChLowerA..ChLowerF
    /\ Continue(HexPush(stack, Cell(data, pos), extensions), dir, data, out)
    /\ UNCHANGED lastPut

\* case '?': dist(engine) is any of 0..3
OpRandom ==
    /\ Fetch(ChQuestion)
    /\ \E k \in 0..3 : Continue(stack, dirs[k + 1], data, out)
    /\ UNCHANGED lastPut

\* case '\'' with extensions: move(); push(data[..]); then the final move()
OpFetchNext ==
    /\ Fetch(ChTick)
    /\ extensions
    /\ Len(stack) < MaxStack
    /\ stack' = push(stack, Cell(data, move(pos, dir)))
    /\ pos' = move(move(pos, dir), dir)
    /\ lastIns' = Cell(data, pos)
    /\ UNCHANGED <<phase, dir, data, out, lastPut, loader, config, strOpen>>

\* case '\'' without extensions: break
OpFetchNextOff ==
    /\ Fetch(ChTick)
    /\ ~extensions
    /\ Continue(stack, dir, data, out)
    /\ UNCHANGED lastPut

\* no case label matches
OpNone ==
    /\ phase = "run"
    /\ Cell(data, pos) \notin Instructions
    /\ Continue(stack, dir, data, out)
    /\ UNCHANGED lastPut

Next ==
    \/ LoadContinuation \/ LoadNewline \/ LoadCell \/ LoadDone
    \/ OpAdd \/ OpSub \/ OpDiv \/ OpMul \/ OpMod \/ OpNot \/ OpGreater
    \/ OpNorth \/ OpSouth \/ OpEast \/ OpWest \/ OpHorizontalIf \/ OpVerticalIf
    \/ OpQuote \/ StringPush \/ StringEnd
    \/ OpDuplicate \/ OpSwap \/ OpDiscard \/ OpPrintInt \/ OpPrintChar
    \/ OpSkip \/ OpGet \/ OpPut \/ OpReadInt \/ OpReadChar \/ OpHalt
    \/ OpDigit \/ OpHex \/ OpRandom \/ OpFetchNext \/ OpFetchNextOff \/ OpNone

Spec == Init /\ [][Next]_vars

(***************************************************************************)
(* Cursor arithmetic: toroidal wrap.                                       *)
(***************************************************************************)
RECURSIVE MoveN(_, _, _)
\* n successive calls of move() with the direction d
\* (the test on q makes TLC compute each position before it goes on)
MoveN(p, d, n) ==
    IF n = 0 THEN p
    ELSE LET q == move(p, d)
         IN IF q \in Int \X Int THEN MoveN(q, d, n - 1) ELSE q

Cardinal == { <<1, 0>>, <<-1, 0>>, <<0, -1>>, <<0, 1>> }

\* the cursor is in use: the grid is loaded and the run has not ended
Running == phase \in {"run", "string"}

\* C1: from the cursor's position, cols advances in a horizontal direction,
\* or rows advances in a vertical one, with the direction unchanged, lead
\* back to exactly that position.
C1_ToroidalRoundTrip ==
    Running => MoveN(pos, dir, IF dir[1] # 0 THEN cols ELSE rows) = pos

\* a step of the loop that calls move() exactly once
SingleAdvance ==
    \/ phase = "string"
    \/ /\ phase = "run"
       /\ phase' # "undefined"
       /\ Cell(data, pos) \notin {ChHash, ChAt}
       /\ ~(Cell(data, pos) = ChTick /\ extensions)

\* C2: a single advance puts the cursor at the non-negative residue
\* (pos + dir) mod size on each axis: east of the last column is column 0,
\* west of column 0 is column cols-1, south of the last row is row 0, north
\* of row 0 is row rows-1, and the other axis is unchanged.
C2_AdvanceIsResidue ==
    [][SingleAdvance =>
          pos' = << (pos[1] + dir'[1]) % cols, (pos[2] + dir'[2]) % rows >>]_vars

\* C3: in every state of a run the cursor satisfies 0 <= x < cols and
\* 0 <= y < rows, so the index y*cols+x of every instruction fetch and of
\* every string-mode read lies inside the grid buffer.
C3_CursorInGrid ==
    phase # "load" =>
        /\ pos[1] >= 0 /\ pos[1] < cols
        /\ pos[2] >= 0 /\ pos[2] < rows
        /\ CellIndex(pos) \in DOMAIN data
        /\ DOMAIN data = 0..(GridSize - 1)

\* the string-mode loop is reading a cell it reached by leaving column 0
\* westward
C3_Witness ==
    /\ phase = "string"
    /\ dir = <<-1, 0>>
    /\ Len(stack) = 2
    /\ pos[1] > 1

(***************************************************************************)
(* Stack underflow.                                                        *)
(***************************************************************************)
\* the instruction under the cursor is c and is about to be executed
AtInstruction(c) == phase = "run" /\ Cell(data, pos) = c

\* s without its top element
Below(s) == SubSeq(s, 1, Len(s) - 1)

\* C4: a pop on the empty stack yields 0 and leaves the stack empty ('$'
\* leaves it empty, '.' prints "0 " and ',' writes the byte 0), '!' on the
\* empty stack leaves exactly <<1>>, and '!' on a non-empty stack replaces
\* the top v by 1 if v = 0 and by 0 otherwise, with the rest unchanged.
C4_UnderflowIsZero ==
    [][ /\ (AtInstruction(ChDollar) /\ stack = <<>>) => (stack' = <<>> /\ phase' = "run")
        /\ (AtInstruction(ChDot) /\ stack = <<>>) =>
               (stack' = <<>> /\ out' = out \o <<ChZero, 32>> /\ phase' = "run")
        /\ (AtInstruction(ChComma) /\ stack = <<>>) =>
               (stack' = <<>> /\ out' = Append(out, 0) /\ phase' = "run")
        /\ (AtInstruction(ChNot) /\ stack = <<>>) => (stack' = <<1>> /\ phase' = "run")
        /\ (AtInstruction(ChNot) /\ stack # <<>>) =>
               /\ Len(stack') = Len(stack)
               /\ Below(stack') = Below(stack)
               /\ stack'[Len(stack)] = (IF stack[Len(stack)] = 0 THEN 1 ELSE 0)
               /\ phase' = "run"
      ]_vars

\* '!' has run on the empty stack, then '$' emptied the stack again and a
\* later '!' has run on a stack of two values
C4_Witness ==
    /\ file = ProgNot
    /\ lastIns = ChNot
    /\ pos = <<6, 0>>
    /\ stack = <<0, 1>>

(***************************************************************************)
(* Grid access by 'g' and 'p'.                                             *)
(***************************************************************************)
\* 'g' is about to read the cell the last 'p' wrote, which is in bounds
GetAfterPut ==
    /\ AtInstruction(ChLowerG)
    /\ Len(stack) >= 2
    /\ lastPut # <<>>
    /\ lastPut[1] >= 0 /\ lastPut[1] < max_col_size
    /\ lastPut[2] >= 0 /\ lastPut[2] < max_row_size
    /\ stack[Len(stack)] = lastPut[2]
    /\ stack[Len(stack) - 1] = lastPut[1]

\* C5 as stated: for in-bounds (x, y) and every 32-bit value v, 'p' of
\* (v, x, y) followed by 'g' of (x, y) pushes exactly v.
C5_PutGetRoundTrip ==
    [][GetAfterPut => (Len(stack') = Len(stack) - 1 /\ stack'[Len(stack')] = lastPut[3])]_vars

\* C5 amended: 'g' pushes v converted to a char: the value congruent to v
\* modulo 256 in the range of the build's plain char (-128..127 if signed,
\* 0..255 if unsigned), which is v itself whenever 0 <= v <= 127.
C5_PutGetRoundTripChar ==
    [][GetAfterPut =>
          /\ Len(stack') = Len(stack) - 1
          /\ LET w == stack'[Len(stack')]
                 v == lastPut[3]
             IN /\ (w - v) % 256 = 0
                /\ IF char_signed THEN w >= -128 /\ w <= 127 ELSE w >= 0 /\ w <= 255
                /\ (v >= 0 /\ v <= 127) => w = v
      ]_vars

\* 'p' stored 300 at (79, 24) and 'g' then pushed 44
C5_Witness ==
    /\ file = ProgPutGetCorner
    /\ lastIns = ChLowerG
    /\ lastPut = <<79, 24, 300>>
    /\ stack = <<44>>

\* C6: 'p' with out-of-bounds coordinates (x < 0, x >= width, y < 0 or
\* y >= height) changes no grid cell, removes its three operands y, x, v
\* from the stack and is followed by the one ordinary advance.
C6_PutOutOfBounds ==
    [][ (/\ AtInstruction(ChLowerP)
         /\ LET y == pop(stack)
                x == pop(popped(stack))
            IN x < 0 \/ x >= max_col_size \/ y < 0 \/ y >= max_row_size)
        => /\ data' = data
           /\ stack' = SubSeq(stack, 1, Len(stack) - 3)
           /\ lastPut' = << pop(popped(stack)), pop(stack), pop(popped(popped(stack))) >>
           /\ dir' = dir
           /\ pos' = move(pos, dir)
           /\ phase' = "run"
      ]_vars

\* 'p' has run with x = 81, y = 0, which would alias the cell (0, 1), and
\* with a value whose char is not blank; that cell is still blank
C6_Witness ==
    /\ file = ProgPut
    /\ lastIns = ChLowerP
    /\ lastPut = <<81, 0, 300>>
    /\ data[cols] = 0
    /\ stack = <<>>

C9_ExtensionGating ==
    [][ /\ (/\ phase = "run"
            /\ ~extensions
            /\ Cell(data, pos) \in (ChLowerA..ChLowerF) \cup {ChTick})
           => /\ stack' = stack
              /\ data' = data
              /\ dir' = dir
              /\ out' = out
              /\ pos' = move(pos, dir)
              /\ phase' = "run"
        /\ (phase = "run" /\ extensions /\ Cell(data, pos) \in ChLowerA..ChLowerF)
           => /\ stack' = Append(stack, 10 + (Cell(data, pos) - ChLowerA))
              /\ data' = data
              /\ dir' = dir
        /\ (file = ProgHex /\ phase' = "halted")
           => out' = (IF extensions THEN <<ChZero + 1, ChZero, 32>> ELSE <<ChZero, 32>>)
        /\ (file = ProgHexF /\ phase' = "halted")
           => out' = (IF extensions THEN <<ChZero + 1, ChZero + 5, 32>> ELSE <<ChZero, 32>>)
        /\ (file = ProgTick /\ ~extensions /\ phase' = "halted")
           => (pos' = <<1, 0>> /\ out' = <<>> /\ stack' = <<>>)
      ]_vars

\* a.@ has halted with extensions off after printing "0 "
C9_Witness ==
    /\ file = ProgHex
    /\ ~extensions
    /\ phase = "halted"
    /\ out = <<ChZero, 32>>
    /\ stack = <<>>

(***************************************************************************)
(* Halting.                                                                *)
(***************************************************************************)
\* C10: the run ends only by fetching '@' as an instruction: an '@' passed
\* in string mode is pushed, an '@' fetched by '\'' is pushed, an '@' after
\* '#' is jumped over, and none of them ends the run; once halted, stack,
\* grid, cursor and output change no more.
C10_HaltOnlyAtAt ==
    [][ /\ (phase # "halted" /\ phase' = "halted")
           => (AtInstruction(ChAt) /\ lastIns' = ChAt /\ pos' = pos)
        /\ (phase = "string" /\ Cell(data, pos) = ChAt)
           => (phase' = "string" /\ stack' = Append(stack, ChAt))
        /\ (AtInstruction(ChTick) /\ extensions /\ Cell(data, move(pos, dir)) = ChAt)
           => (phase' = "run" /\ stack' = Append(stack, ChAt))
        /\ (AtInstruction(ChHash) /\ Cell(data, move(pos, dir)) = ChAt)
           => (phase' = "run" /\ stack' = stack /\ pos' # move(pos, dir))
        /\ phase = "halted" => UNCHANGED <<stack, data, pos, dir, out, phase>>
      ]_vars

\* "A@",,@ has halted at its last cell after the '@' inside the string was
\* pushed and printed
C10_Witness ==
    /\ file = ProgString
    /\ phase = "halted"
    /\ out = <<ChAt, 65>>
    /\ pos = <<6, 0>>
    /\ lastIns = ChAt

(***************************************************************************)
(* Digit programs.                                                         *)
(***************************************************************************)
\* C11: a program whose first row is n digits d1..dn followed by '@' halts
\* after exactly n+1 instruction fetches, one at each of the columns 0..n,
\* with the stack <<d1, ..., dn>> as numbers 0..9, with no output and with
\* the grid as loaded: after k fetches the cursor is at column k of row 0
\* and the stack holds the first k digits, and the run is halted exactly
\* at column n.
C11_DigitsThenHalt ==
    (file \in DigitPrograms /\ phase # "load") =>
        LET n == Len(file) - 1
        IN /\ phase \in {"run", "halted"}
           /\ pos[2] = 0
           /\ pos[1] = Len(stack)
           /\ pos[1] <= n
           /\ \A k \in 1..Len(stack) :
                 /\ stack[k] = file[k] - ChZero
                 /\ stack[k] >= 0 /\ stack[k] <= 9
           /\ out = <<>>
           /\ \A k \in 0..(GridSize - 1) :
                 data[k] = (IF k < Len(file) THEN file[k + 1] ELSE 0)
           /\ (phase = "halted") => (pos[1] = n /\ lastIns = ChAt)
           /\ (phase = "run" /\ pos[1] = n) => Cell(data, pos) = ChAt

\* 790@ has halted with the stack <<7, 9, 0>>
C11_Witness ==
    /\ file = <<ChZero + 7, ChNine, ChZero, ChAt>>
    /\ phase = "halted"
    /\ stack = <<7, 9, 0>>
    /\ pos = <<3, 0>>
    /\ out = <<>>

(***************************************************************************)
(* Output order.                                                           *)
(***************************************************************************)
\* C12: after a string section has pushed c1..cn, n executions of ','
\* write cn, ..., c1: each ',' writes the low 8 bits of the value pushed
\* last among those still on the stack, and one more ',' on the then empty
\* stack writes the byte 0.
C12_OutputReversed ==
    [][ /\ AtInstruction(ChComma) =>
               /\ out' = Append(out, IF stack = <<>> THEN 0 ELSE stack[Len(stack)] % 256)
               /\ stack' = (IF stack = <<>> THEN <<>> ELSE Below(stack))
        /\ (file \in StringOutPrograms /\ phase' = "halted") =>
               LET n == (Len(file) - 4) \div 2
               IN /\ Len(out') = n + 1
                  /\ \A k \in 1..n : out'[k] = file[n + 2 - k]
                  /\ out'[n + 1] = 0
                  /\ stack' = <<>>
      ]_vars

\* "A" and the byte 195 were pushed, then ',,,' wrote 195, 65 and 0
C12_Witness ==
    /\ file = <<ChQuote, 65, 195, ChQuote, ChComma, ChComma, ChComma, ChAt>>
    /\ char_signed
    /\ phase = "halted"
    /\ out = <<195, 65, 0>>

(***************************************************************************)
(* Operand order.                                                          *)
(***************************************************************************)
Abs(v) == IF v < 0 THEN -v ELSE v
\* q is b / a rounded toward zero
IsQuotient(q, b, a) ==
    LET r == b - q * a
    IN Abs(r) < Abs(a) /\ (r = 0 \/ (r > 0) = (b > 0))
\* r is the remainder of b / a rounded toward zero
IsRemainder(r, b, a) ==
    /\ Abs(r) < Abs(a)
    /\ r = 0 \/ (r > 0) = (b > 0)
    /\ (b - r) % Abs(a) = 0

\* C13: with a on top of the stack and b directly below it (a value the
\* stack does not hold counts as 0), '-' leaves b - a, '/' leaves b / a and
\* '%' leaves b % a (for a # 0, rounding toward zero), '`' leaves 1 if
\* b > a and 0 otherwise; the result replaces a and b, and the values below
\* them stay as they were.
C13_OperandOrder ==
    [][ \A op \in OrderedOps :
          LET n == Len(stack)
              a == IF n >= 1 THEN stack[n] ELSE 0
              b == IF n >= 2 THEN stack[n - 1] ELSE 0
              rest == IF n >= 2 THEN SubSeq(stack, 1, n - 2) ELSE <<>>
          IN (AtInstruction(op) /\ (op \in {ChSlash, ChPercent} => a # 0)) =>
                /\ phase' = "run"
                /\ Len(stack') = Len(rest) + 1
                /\ SubSeq(stack', 1, Len(rest)) = rest
                /\ LET r == stack'[Len(stack')]
                   IN CASE op = ChMinus -> r = b - a
                        [] op = ChSlash -> IsQuotient(r, b, a)
                        [] op = ChPercent -> IsRemainder(r, b, a)
                        [] op = ChBacktick -> r = (IF b > a THEN 1 ELSE 0)
      ]_vars

\* 7, then -1 and 300 were read: '-' left -301 above the 7, '.' wrote it
C13_Witness ==
    /\ file = ProgBinaryDeep(ChMinus)
    /\ phase = "halted"
    /\ stack = <<7>>
    /\ out = FormatInt(-301)

C15_StringPushesPath ==
    [][ /\ (AtInstruction(ChQuote) \/ phase = "string") =>
              /\ data' = data
              /\ dir' = dir
              /\ out' = out
        /\ phase = "string" => lastIns' = ChQuote
        /\ (phase = "string" /\ phase' = "run") =>
              LET p == strOpen[1]
                  base == Len(strOpen[2])
                  m == Len(stack') - base
                  At(k) == << (p[1] + k * dir[1]) % cols,
                              (p[2] + k * dir[2]) % rows >>
              IN /\ m >= 0
                 /\ SubSeq(stack', 1, base) = strOpen[2]
                 /\ \A k \in 1..m :
                       /\ Cell(data, At(k)) # ChQuote
                       /\ stack'[base + k] = Cell(data, At(k))
                 /\ Cell(data, At(m + 1)) = ChQuote
                 /\ pos' = At(m + 2)
      ]_vars

(***************************************************************************)
(* Skip.                                                                   *)
(***************************************************************************)
\* C16: '#' at p with direction d keeps stack, grid and direction and puts
\* the cursor at p+2d, each coordinate reduced to its non-negative residue,
\* also across a grid edge; every other instruction except '"', '@' and
\* the enabled '\'' puts the cursor at p+d', reduced the same way, where d'
\* is the direction after the instruction's effect.
C16_SkipOneCell ==
    [][ /\ AtInstruction(ChHash) =>
              /\ stack' = stack
              /\ data' = data
              /\ dir' = dir
              /\ phase' = "run"
              /\ pos' = << (pos[1] + 2 * dir[1]) % cols,
                           (pos[2] + 2 * dir[2]) % rows >>
        /\ ( /\ phase = "run"
             /\ phase' = "run"
             /\ Cell(data, pos) \notin {ChHash, ChQuote, ChAt}
             /\ ~(Cell(data, pos) = ChTick /\ extensions) ) =>
              pos' = << (pos[1] + dir'[1]) % cols,
                        (pos[2] + dir'[2]) % rows >>
      ]_vars

(***************************************************************************)
(* Swap against its reference sequence.                                    *)
(***************************************************************************)
\* the sequence of the NOTE in case '\\': a = pop(); b = pop(); push(a);
\* push(b)
RefSwap(s) ==
    LET a == pop(s)
        s1 == popped(s)
        b == pop(s1)
        s2 == popped(s1)
    IN push(push(s2, a), b)

C18_LoaderInBuffer ==
    /\ ( /\ phase = "load"
         /\ i < bytes_read
         /\ (file[i + 1] \div 64) # 2
         /\ file[i + 1] # ChNewline ) => (j >= 0 /\ j < GridSize)
    /\ ~(phase = "undefined" /\ lastIns = -1)

(***************************************************************************)
(* Termination of string mode.                                             *)
(***************************************************************************)
RECURSIVE QuoteAhead(_, _, _)
\* the inner loop of case '"', started at p with direction d, meets a quote
\* within n calls of move()
QuoteAhead(p, d, n) ==
    IF Cell(data, p) = ChQuote THEN TRUE
    ELSE IF n = 0 THEN FALSE
    ELSE QuoteAhead(move(p, d), d, n - 1)

RECURSIVE ComesBack(_, _, _, _)
\* the cursor at q with direction d reaches p within n calls of move()
ComesBack(p, q, d, n) ==
    IF n = 0 THEN FALSE
    ELSE LET r == move(q, d)
         IN IF r = p THEN TRUE ELSE ComesBack(p, r, d, n - 1)

\* C19: while the string-mode loop runs, a quote lies ahead of the cursor
\* on the path that move() takes (grid and direction are fixed during the
\* loop, and a path that has not met a quote within cols + rows calls of
\* move() is in a cycle without one), and the path from the opening quote
\* comes back to the opening quote cell.
C19_StringTerminates ==
    phase = "string" =>
        /\ QuoteAhead(pos, dir, cols + rows)
        /\ ComesBack(strOpen[1], strOpen[1], dir, cols + rows)

(***************************************************************************)
(* 'p', 'g' and the instruction fetch address the same cell.               *)
(***************************************************************************)
\* the last 'p' had in-bounds coordinates
PutInBounds ==
    /\ lastPut # <<>>
    /\ lastPut[1] >= 0 /\ lastPut[1] < max_col_size
    /\ lastPut[2] >= 0 /\ lastPut[2] < max_row_size

\* C20: 'p' with in-bounds (x, y) changes the cell (x, y) and no other
\* cell, and no other step of a run changes the grid; with c the character
\* the last 'p' stored at (x, y), every instruction fetch with the cursor
\* at (x, y) decodes c (so c = '@' ends the run) and every 'g' of (x, y)
\* pushes c.
C20_SameCell ==
    [][ /\ (AtInstruction(ChLowerP) /\ phase' = "run") =>
              LET y == pop(stack)
                  x == pop(popped(stack))
              IN IF x >= 0 /\ x < max_col_size /\ y >= 0 /\ y < max_row_size
                 THEN /\ \A k \in 0..(GridSize - 1) :
                            k # y * cols + x => data'[k] = data[k]
                      /\ lastPut'[1] = x /\ lastPut'[2] = y
                      /\ Cell(data', <<x, y>>) = IntToChar(lastPut'[3], char_signed)
                 ELSE data' = data
        /\ (Running /\ ~AtInstruction(ChLowerP)) => data' = data
        /\ (phase = "run" /\ PutInBounds /\ pos = <<lastPut[1], lastPut[2]>>) =>
              LET c == IntToChar(lastPut[3], char_signed)
              IN /\ lastIns' = c
                 /\ c = ChAt => phase' = "halted"
                 /\ c \notin Instructions => (stack' = stack /\ out' = out /\ dir' = dir)
        /\ (GetAfterPut /\ PutInBounds) =>
              /\ Len(stack') = Len(stack) - 1
              /\ stack'[Len(stack')] = IntToChar(lastPut[3], char_signed)
      ]_vars

\* 'p' stored '@' at (9, 0) over the '.', 'g' pushed 64, and the fetch at
\* (9, 0) ended the run
C20_Witness ==
    /\ file = ProgPutFetch
    /\ phase = "halted"
    /\ pos = <<9, 0>>
    /\ lastPut = <<9, 0, 64>>
    /\ lastIns = ChAt
    /\ stack = <<64>>
    /\ out = <<>>

====
